---- MODULE Spec2Model ----
(***************************************************************************)
(* Model of src/router-engine/optimized_router.py: the OptimizedRouter     *)
(* liquidity graph (add_pool), the path search (_k_shortest_paths), the    *)
(* route simulation (_path_to_swap_route), the PricePredictor.adjust       *)
(* ranking and the find_routes facade (pure Python implementation,        *)
(* RUST_ENGINE_AVAILABLE = False).                                         *)
(*                                                                         *)
(* Python floats are modelled as exact rationals <<num, den>> (den > 0,    *)
(* lowest terms); at the magnitudes explored here int() of a float        *)
(* expression equals the truncation of the exact value.  Decimal strings   *)
(* of integers (str(n), int(s)) are modelled by the integer itself.        *)
(* A dict key that is absent is modelled by the empty tuple <<>>.          *)
(***************************************************************************)
EXTENDS Integers, Sequences, FiniteSets, TLC

VARIABLES
    pools,      \* self.pools: pool_id -> Pool
    tokens,     \* self.tokens: token key -> Token
    graph,      \* self.graph (nx.DiGraph): <<u, v>> -> edge attribute dict
    nAdds,      \* number of add_pool calls made so far
    addOutcome, \* outcome of the last add_pool call
    addArg,     \* argument of the last add_pool call, <<>> before the first
    addRepeat,  \* the last step was add_pool with the pool of the add_pool just before
    nCalls,     \* number of find_routes calls entered on threads so far
    call,       \* the find_routes call that has returned and its result, until the caller
                \* is done with it
    threads     \* find_routes calls in progress on threads, between search and simulation

vars == <<pools, tokens, graph, nAdds, addOutcome, addArg, addRepeat, nCalls, call, threads>>

-----------------------------------------------------------------------------
(* Bounds of the exploration *)

MaxAdds == 3
MaxThreadCalls == 2

-----------------------------------------------------------------------------
(* Rational arithmetic standing for Python float arithmetic *)

RECURSIVE Gcd(_, _)
Gcd(a, b) == IF b = 0 THEN a ELSE Gcd(b, a % b)

Abs(x) == IF x < 0 THEN -x ELSE x

RNorm(n, d) ==
    LET s == IF d < 0 THEN -1 ELSE 1
        g == Gcd(Abs(n), Abs(d))
    IN  <<(s * n) \div g, (s * d) \div g>>

RInt(n) == <<n, 1>>
RAdd(x, y) == RNorm(x[1] * y[2] + y[1] * x[2], x[2] * y[2])
RSub(x, y) == RNorm(x[1] * y[2] - y[1] * x[2], x[2] * y[2])
RMul(x, y) == RNorm(x[1] * y[1], x[2] * y[2])
RDiv(x, y) == RNorm(x[1] * y[2], x[2] * y[1])
RLess(x, y) == x[1] * y[2] < y[1] * x[2]
RLeq(x, y) == x[1] * y[2] <= y[1] * x[2]
RMin(x, y) == IF RLess(y, x) THEN y ELSE x
RMax(x, y) == IF RLess(x, y) THEN y ELSE x

\* int(x): truncation toward zero
RTrunc(x) == IF x[1] >= 0 THEN x[1] \div x[2] ELSE -((-x[1]) \div x[2])

Absent == <<>>
Get(v, default) == IF v = Absent THEN default ELSE v

-----------------------------------------------------------------------------
(* Data model: Token, Pool and the inputs fed to the router *)

\* Token(chain_id, address); symbol and decimals are display-only
Token(a) == [chain_id |-> 1, address |-> a]

Tokens == {Token("a"), Token("b"), Token("c")}

\* f"{token.chain_id}_{token.address}"
TokenKey(t) == <<t.chain_id, t.address>>

\* Pool(exchange, token_a, token_b, fee_tier, reserve_a, reserve_b, price, liquidity);
\* fee_tier is held in thousandths, price as a rational
Pool(ex, a, b, fee, ra, rb, price, liq) ==
    [exchange |-> ex, token_a |-> Token(a), token_b |-> Token(b), fee_tier |-> fee,
     reserve_a |-> ra, reserve_b |-> rb, price |-> price, liquidity |-> liq]

\* constant-product pools with positive reserves and price = reserve_b / reserve_a:
\* a known exchange with deep liquidity on a-b and b-c, an unknown exchange with thin
\* liquidity and a fee on a-c and, next to the first pool, on a-b
MarketPools ==
    { Pool("Curve", "a", "b", 0, 4, 4, <<1, 1>>, 4000000),
      Pool("Curve", "b", "c", 0, 4, 4, <<1, 1>>, 4000000),
      Pool("shady", "a", "c", 300, 2, 4, <<2, 1>>, 50000),
      Pool("shady", "a", "b", 300, 2, 4, <<2, 1>>, 50000) }

\* reserve updates that drain a pool: b-c emptied, c-a (the a-c pair quoted the other
\* way round) with nothing left of a, hence price 0
DrainedPools ==
    { Pool("Curve", "b", "c", 0, 0, 0, <<1, 1>>, 4000000),
      Pool("Curve", "c", "a", 0, 4, 0, <<0, 1>>, 4000000) }

\* pools the data model calls malformed
MalformedPools ==
    { Pool("Curve", "a", "a", 0, 4, 4, <<1, 1>>, 4000000),
      Pool("Curve", "b", "c", 0, -1, 4, <<1, 1>>, 4000000),
      Pool("Curve", "a", "b", 1000, 4, 4, <<1, 1>>, 4000000) }

PoolInputs == MarketPools \cup DrainedPools \cup MalformedPools

\* requested amounts
Amounts == {1, 2}

\* pool.token_a == pool.token_b, a negative reserve, or fee_tier outside [0, 1)
Malformed(p) ==
    \/ p.token_a = p.token_b
    \/ p.reserve_a < 0
    \/ p.reserve_b < 0
    \/ p.fee_tier < 0
    \/ p.fee_tier >= 1000

-----------------------------------------------------------------------------
(* OptimizedRouter.add_pool *)

\* f"{pool.exchange}_{pool.token_a.address}_{pool.token_b.address}_{pool.fee_tier}"
PoolId(p) == <<p.exchange, p.token_a.address, p.token_b.address, p.fee_tier>>

\* add_edge as it would be if an update added the reserves to those already stored
add_edge_accumulating(g, u, v, attr) ==
    LET e == <<u, v>>
        old == IF e \in DOMAIN g
               THEN g[e]
               ELSE [reserve_a |-> 0, reserve_b |-> 0, price_impact |-> Absent,
                     gas_cost |-> Absent, slippage |-> Absent]
        new == [pool_id |-> attr.pool_id, exchange |-> attr.exchange,
                fee_tier |-> attr.fee_tier, price |-> attr.price,
                liquidity |-> attr.liquidity, reserve_a |-> old.reserve_a + attr.reserve_a,
                reserve_b |-> old.reserve_b + attr.reserve_b,
                price_impact |-> old.price_impact,
                gas_cost |-> old.gas_cost, slippage |-> old.slippage]
    IN  (e :> new) @@ g

\* nx.DiGraph.add_edge(u, v, **attr): one attribute dict per ordered pair (u, v);
\* an existing dict is updated in place and keeps the keys attr does not name
add_edge(g, u, v, attr) ==
    LET e == <<u, v>>
        old == IF e \in DOMAIN g
               THEN g[e]
               ELSE [price_impact |-> Absent, gas_cost |-> Absent, slippage |-> Absent]
        new == [pool_id |-> attr.pool_id, exchange |-> attr.exchange,
                fee_tier |-> attr.fee_tier, price |-> attr.price,
                liquidity |-> attr.liquidity, reserve_a |-> attr.reserve_a,
                reserve_b |-> attr.reserve_b, price_impact |-> old.price_impact,
                gas_cost |-> old.gas_cost, slippage |-> old.slippage]
    IN  (e :> new) @@ g

\* self.pools[pool_id] = pool
add_pool_pools(ps, p) == (PoolId(p) :> p) @@ ps

\* if token_a_key not in self.tokens: ...; if token_b_key not in self.tokens: ...
add_pool_tokens(ts, p) ==
    LET ka == TokenKey(p.token_a)
        kb == TokenKey(p.token_b)
        t1 == IF ka \in DOMAIN ts THEN ts ELSE (ka :> p.token_a) @@ ts
    IN  IF kb \in DOMAIN t1 THEN t1 ELSE (kb :> p.token_b) @@ t1

ForwardAttr(p) ==
    [pool_id |-> PoolId(p), exchange |-> p.exchange, fee_tier |-> p.fee_tier,
     price |-> p.price, liquidity |-> p.liquidity,
     reserve_a |-> p.reserve_a, reserve_b |-> p.reserve_b]

\* price=1.0 / pool.price, reserve_a=pool.reserve_b, reserve_b=pool.reserve_a
ReverseAttr(p) ==
    [pool_id |-> PoolId(p), exchange |-> p.exchange, fee_tier |-> p.fee_tier,
     price |-> RDiv(RInt(1), p.price), liquidity |-> p.liquidity,
     reserve_a |-> p.reserve_b, reserve_b |-> p.reserve_a]

\* 1.0 / pool.price raises ZeroDivisionError after the first add_edge has run
add_pool_outcome(p) == IF p.price[1] = 0 THEN "ZeroDivisionError" ELSE "ok"

add_pool_graph(g, p) ==
    LET ka == TokenKey(p.token_a)
        kb == TokenKey(p.token_b)
        g1 == add_edge(g, ka, kb, ForwardAttr(p))
    IN  IF add_pool_outcome(p) = "ok" THEN add_edge(g1, kb, ka, ReverseAttr(p)) ELSE g1

-----------------------------------------------------------------------------
(* Cost model *)

\* exchange.lower()
Lower(ex) == IF ex = "Curve" THEN "curve" ELSE ex

\* OptimizedRouter._calculate_price_impact
_calculate_price_impact(amount, reserve_in, reserve_out) ==
    IF amount <= 0 \/ reserve_in <= 0 \/ reserve_out <= 0
    THEN RInt(1)
    ELSE LET k == reserve_in * reserve_out
             new_reserve_in == reserve_in + amount
             new_reserve_out == RNorm(k, new_reserve_in)
             price_before == RNorm(reserve_out, reserve_in)
             price_after == RDiv(new_reserve_out, RInt(new_reserve_in))
             price_impact == RSub(RInt(1), RDiv(price_after, price_before))
         IN  RMax(RInt(0), RMin(RInt(1), price_impact))

base_cost == 100000
hop_cost == 70000

exchange_costs(ex) ==
    CASE ex = "uniswap" -> 0
      [] ex = "sushiswap" -> 5000
      [] ex = "curve" -> -10000
      [] ex = "balancer" -> 15000
      [] OTHER -> 0

RECURSIVE SumExchangeCosts(_)
SumExchangeCosts(exchanges) ==
    IF exchanges = <<>> THEN 0
    ELSE exchange_costs(Lower(Head(exchanges))) + SumExchangeCosts(Tail(exchanges))

\* OptimizedRouter._calculate_gas_cost
_calculate_gas_cost(path_length, exchanges) ==
    base_cost + (path_length - 1) * hop_cost + SumExchangeCosts(exchanges)

KnownExchanges == {"uniswap", "sushiswap", "curve", "balancer"}

Min2(a, b) == IF a < b THEN a ELSE b

\* OptimizedRouter._calculate_risk_score; path is a sequence of edges <<u, v>> of g
_calculate_risk_score(g, path) ==
    LET hop_count == Len(path)
        base_risk == IF hop_count = 1 THEN 1
                     ELSE IF hop_count = 2 THEN 2
                     ELSE IF hop_count = 3 THEN 3 ELSE 4
        liqs == {g[path[i]].liquidity : i \in 1..Len(path)}
        min_liquidity == CHOOSE l \in liqs : \A m \in liqs : l <= m
        liquidity_factor == IF min_liquidity < 100000 THEN 2
                            ELSE IF min_liquidity < 1000000 THEN 1 ELSE 0
        high_risk_exchanges ==
            Cardinality({i \in 1..Len(path) : Lower(g[path[i]].exchange) \notin KnownExchanges})
        exchange_factor == Min2(2, high_risk_exchanges)
    IN  Min2(5, base_risk + liquidity_factor + exchange_factor)

\* OptimizedRouter._weight_function
_weight_function(data) ==
    LET price_impact == Get(data.price_impact, <<1, 100>>)
        gas_cost == RDiv(Get(data.gas_cost, RInt(100000)), RInt(1000000))
        slippage == Get(data.slippage, <<5, 1000>>)
    IN  RAdd(RAdd(RMul(<<6, 10>>, price_impact), RMul(<<3, 10>>, gas_cost)),
             RMul(<<1, 10>>, slippage))

-----------------------------------------------------------------------------
(* Path search: OptimizedRouter._k_shortest_paths *)

Nodes(g) == {e[1] : e \in DOMAIN g} \cup {e[2] : e \in DOMAIN g}

\* the "Prepare graph for routing" loop: every edge dict gets price_impact for
\* this amount, gas_cost and slippage
Prepare(g, amount) ==
    [e \in DOMAIN g |->
        [g[e] EXCEPT
            !.price_impact = _calculate_price_impact(amount, g[e].reserve_a, g[e].reserve_b),
            !.gas_cost = RInt(_calculate_gas_cost(1, <<g[e].exchange>>)),
            !.slippage = <<5, 1000>>]]

\* edges of a node sequence: zip(path[:-1], path[1:])
EdgesOf(np) == [i \in 1..(Len(np) - 1) |-> <<np[i], np[i + 1]>>]

\* the simple (loopless) paths of g that start with the node sequence np and end at t
RECURSIVE SimplePathsFrom(_, _, _)
SimplePathsFrom(g, np, t) ==
    IF np[Len(np)] = t THEN { np }
    ELSE UNION { SimplePathsFrom(g, Append(np, e[2]), t) :
                   e \in { d \in DOMAIN g :
                             /\ d[1] = np[Len(np)]
                             /\ \A i \in 1..Len(np) : np[i] # d[2] } }

\* the simple paths of g from s to t, as node sequences
SimplePaths(g, s, t) == SimplePathsFrom(g, <<s>>, t)

RECURSIVE PathWeight(_, _)
PathWeight(g, path) ==
    IF path = <<>> THEN RInt(0)
    ELSE RAdd(_weight_function(g[Head(path)]), PathWeight(g, Tail(path)))

\* the orders in which the paths of S may come: by non-decreasing total weight, the
\* order among paths of equal weight left open
ByWeight(g, S) ==
    LET n == Cardinality(S)
        w == [np \in S |-> PathWeight(g, EdgesOf(np))]
    IN  { q \in [1..n -> S] :
            /\ \A i, j \in 1..n : i # j => q[i] # q[j]
            /\ \A i, j \in 1..n : i < j => RLeq(w[q[i]], w[q[j]]) }

\* nx.shortest_simple_paths(G, source, target, weight): the lists it may yield
ShortestSimplePaths(g, s, t) == ByWeight(g, SimplePaths(g, s, t))

K == 5

\* nx.shortest_simple_paths raises NodeNotFound (not caught) for an endpoint that is
\* no node of the graph
NodeNotFound(g, s, t) == s # t /\ (s \notin Nodes(g) \/ t \notin Nodes(g))

\* the lists _k_shortest_paths may return on the prepared graph g: paths[:k], each
\* path as its sequence of edges; [] when token_in == token_out or no path exists
_k_shortest_paths(g, s, t, k) ==
    IF s = t THEN { <<>> }
    ELSE LET qs == ShortestSimplePaths(g, s, t)
         IN  { [i \in 1..Min2(k, Len(q)) |-> EdgesOf(q[i])] : q \in qs }

-----------------------------------------------------------------------------
(* Route simulation: OptimizedRouter._path_to_swap_route *)

\* output_amount of one hop for the input current_amount (lines 340-352)
HopOutput(data, current_amount) ==
    LET reserve_in == data.reserve_a
        reserve_out == data.reserve_b
    IN  IF reserve_in > 0 /\ reserve_out > 0
        THEN LET k == reserve_in * reserve_out
                 new_reserve_in == reserve_in + current_amount
                 new_reserve_out == RNorm(k, new_reserve_in)
             IN  RTrunc(RSub(RInt(reserve_out), new_reserve_out))
        ELSE RTrunc(RMul(RInt(current_amount), data.price))

\* min_output = int(output_amount * (1 - slippage)), slippage = 0.005
MinOutput(output_amount) == RTrunc(RMul(RInt(output_amount), <<995, 1000>>))

\* the loop over the hops as it would be if token_out were looked up under u
RECURSIVE WalkStepsTokenOutOfU(_, _, _, _)
WalkStepsTokenOutOfU(g, ts, path, current_amount) ==
    IF path = <<>> THEN <<>>
    ELSE LET e == Head(path)
             data == g[e]
             output_amount == HopOutput(data, current_amount)
             step == [exchange_id |-> data.exchange,
                      token_in |-> ts[e[1]],
                      token_out |-> ts[e[1]],
                      fee_tier |-> data.fee_tier,
                      amount_in |-> current_amount,
                      amount_out_min |-> MinOutput(output_amount)]
         IN  <<step>> \o WalkStepsTokenOutOfU(g, ts, Tail(path), output_amount)

\* the loop over the hops: the steps built from hop i on, current_amount threaded
RECURSIVE WalkSteps(_, _, _, _)
WalkSteps(g, ts, path, current_amount) ==
    IF path = <<>> THEN <<>>
    ELSE LET e == Head(path)
             data == g[e]
             output_amount == HopOutput(data, current_amount)
             step == [exchange_id |-> data.exchange,
                      token_in |-> ts[e[1]],
                      token_out |-> ts[e[2]],
                      fee_tier |-> data.fee_tier,
                      amount_in |-> current_amount,
                      amount_out_min |-> MinOutput(output_amount)]
         IN  <<step>> \o WalkSteps(g, ts, Tail(path), output_amount)

\* current_amount after the last hop
RECURSIVE WalkAmount(_, _, _)
WalkAmount(g, path, current_amount) ==
    IF path = <<>> THEN current_amount
    ELSE WalkAmount(g, Tail(path), HopOutput(g[Head(path)], current_amount))

\* sum(data.get('price_impact', 0) for _, _, data in path)
RECURSIVE SumPriceImpact(_, _)
SumPriceImpact(g, path) ==
    IF path = <<>> THEN RInt(0)
    ELSE RAdd(Get(g[Head(path)].price_impact, RInt(0)), SumPriceImpact(g, Tail(path)))

_path_to_swap_route(g, ts, path, amount_in) ==
    [steps |-> WalkSteps(g, ts, path, amount_in),
     amount_in |-> amount_in,
     expected_amount_out |-> WalkAmount(g, path, amount_in),
     price_impact |-> SumPriceImpact(g, path),
     gas_estimate |-> _calculate_gas_cost(Len(path),
                          [i \in 1..Len(path) |-> g[path[i]].exchange]),
     risk_score |-> _calculate_risk_score(g, path)]

\* routes = [self._path_to_swap_route(path, amount) for path in paths]
SimulateAll(g, ts, paths, amount) ==
    [i \in 1..Len(paths) |-> _path_to_swap_route(g, ts, paths[i], amount)]

-----------------------------------------------------------------------------
(* PricePredictor.adjust *)

\* int(current_amount * adjustment) for adjustment = 1.0 + (random() - 0.5) * 0.01,
\* random() in [0, 1): every integer from int(0.995 c) to the largest below 1.005 c
AdjustedAmounts(c) ==
    IF c <= 0 THEN {c}
    ELSE ((995 * c) \div 1000)..((1005 * c - 1) \div 1000)

\* the lists of routes after the adjustment loop, one per draw of the random numbers
Adjustments(routes) ==
    { [i \in 1..Len(routes) |-> [routes[i] EXCEPT !.expected_amount_out = a[i]]] :
        a \in { b \in [1..Len(routes) -> UNION { AdjustedAmounts(routes[i].expected_amount_out) :
                                                  i \in 1..Len(routes) }] :
                  \A i \in 1..Len(routes) :
                      b[i] \in AdjustedAmounts(routes[i].expected_amount_out) } }

\* the insertion as it would be without reverse=True: ascending
RECURSIVE InsertAsc(_, _)
InsertAsc(sorted, r) ==
    IF sorted = <<>> THEN <<r>>
    ELSE IF Head(sorted).expected_amount_out <= r.expected_amount_out
         THEN <<Head(sorted)>> \o InsertAsc(Tail(sorted), r)
         ELSE <<r>> \o sorted

\* insert r behind every route whose key is not smaller: keeps equal keys in order
RECURSIVE InsertDesc(_, _)
InsertDesc(sorted, r) ==
    IF sorted = <<>> THEN <<r>>
    ELSE IF Head(sorted).expected_amount_out >= r.expected_amount_out
         THEN <<Head(sorted)>> \o InsertDesc(Tail(sorted), r)
         ELSE <<r>> \o sorted

\* sorted(paths, key=lambda p: int(p.expected_amount_out), reverse=True): stable
RECURSIVE SortedDesc(_)
SortedDesc(routes) ==
    IF routes = <<>> THEN <<>>
    ELSE InsertDesc(SortedDesc(SubSeq(routes, 1, Len(routes) - 1)), routes[Len(routes)])

\* the lists adjust may return
adjust(routes) ==
    IF routes = <<>> THEN { routes }
    ELSE { SortedDesc(adjusted) : adjusted \in Adjustments(routes) }

-----------------------------------------------------------------------------
(* OptimizedRouter.find_routes, pure Python path *)

\* paths = self._k_shortest_paths(...): the graph as the search leaves it, and either
\* the exception that escapes or a list of paths
SearchStep(g, token_in, token_out, amount) ==
    LET s == TokenKey(token_in)
        t == TokenKey(token_out)
        g1 == IF s = t THEN g ELSE Prepare(g, amount)
    IN  IF NodeNotFound(g1, s, t)
        THEN { [graph |-> g1, outcome |-> "NodeNotFound", paths |-> <<>>] }
        ELSE { [graph |-> g1, outcome |-> "routes", paths |-> ps] :
                 ps \in _k_shortest_paths(g1, s, t, K) }

\* routes = [...]; adjusted_routes = self.predictor.adjust(routes); the edge dicts are
\* read from the graph g as it is when the simulation runs
SimulateStep(g, ts, paths, amount) ==
    LET routes == SimulateAll(g, ts, paths, amount)
    IN  { [simulated |-> routes, result |-> res] : res \in adjust(routes) }

\* one whole call run without interruption: the outcomes it may have
find_routes(g, ts, token_in, token_out, amount) ==
    { [graph |-> sr.graph, outcome |-> sr.outcome, token_in |-> token_in,
       token_out |-> token_out, amount |-> amount, paths |-> sr.paths,
       simulated |-> sim.simulated, result |-> sim.result] :
        sr \in SearchStep(g, token_in, token_out, amount),
        sim \in UNION { SimulateStep(x.graph, ts, x.paths, amount) :
                          x \in SearchStep(g, token_in, token_out, amount) } }

-----------------------------------------------------------------------------
(* State machine *)

Threads == {1, 2}

NoCall ==
    [outcome |-> "none", token_in |-> Token("a"), token_out |-> Token("a"), amount |-> 0,
     paths |-> <<>>, seen |-> {}, simulated |-> <<>>, result |-> <<>>]

IdleThread ==
    [pc |-> "idle", token_in |-> Token("a"), token_out |-> Token("a"), amount |-> 0,
     paths |-> <<>>, seen |-> {}]

Init ==
    /\ pools = <<>>
    /\ tokens = <<>>
    /\ graph = <<>>
    /\ nAdds = 0
    /\ addOutcome = "none"
    /\ addArg = <<>>
    /\ addRepeat = FALSE
    /\ nCalls = 0
    /\ call = NoCall
    /\ threads = [t \in Threads |-> IdleThread]

\* the graph g is one more state of the graph that the calls in progress run over
Observe(ths, g) ==
    [t \in Threads |->
        IF ths[t].pc = "searched"
        THEN [ths[t] EXCEPT !.seen = @ \cup {Prepare(g, ths[t].amount)}]
        ELSE ths[t]]

\* router.add_pool(p)
AddPool(p) ==
    /\ call = NoCall
    /\ nAdds < MaxAdds
    /\ nAdds' = nAdds + 1
    /\ pools' = add_pool_pools(pools, p)
    /\ tokens' = add_pool_tokens(tokens, p)
    /\ graph' = add_pool_graph(graph, p)
    /\ addOutcome' = add_pool_outcome(p)
    /\ addArg' = <<p>>
    /\ addRepeat' = (addArg = <<p>>)
    /\ threads' = Observe(threads, graph')
    /\ UNCHANGED <<nCalls, call>>

\* await router.find_routes(token_in, token_out, amount), run to completion: the
\* coroutine has no await inside, so on one event loop nothing interleaves with it
FindRoutes(token_in, token_out, amount) ==
    /\ call = NoCall
    /\ \E sr \in SearchStep(graph, token_in, token_out, amount) :
         /\ graph' = sr.graph
         /\ \E sim \in SimulateStep(sr.graph, tokens, sr.paths, amount) :
              call' = [outcome |-> sr.outcome, token_in |-> token_in,
                       token_out |-> token_out, amount |-> amount, paths |-> sr.paths,
                       seen |-> {sr.graph},
                       simulated |-> sim.simulated, result |-> sim.result]
    /\ addRepeat' = FALSE
    /\ UNCHANGED <<pools, tokens, nAdds, addOutcome, addArg, nCalls, threads>>

\* the caller is done with the list it got (main prints it): the routes are results of
\* one call and nothing keeps them
Consume ==
    /\ call # NoCall
    /\ call' = NoCall
    /\ UNCHANGED <<pools, tokens, graph, nAdds, addOutcome, addArg, addRepeat, nCalls, threads>>

Next ==
    \/ \E p \in PoolInputs : AddPool(p)
    \/ \E token_in, token_out \in Tokens : \E amount \in Amounts :
         FindRoutes(token_in, token_out, amount)
    \/ Consume

Spec == Init /\ [][Next]_vars

-----------------------------------------------------------------------------
(* Properties of the liquidity graph *)

StateAfter(ps, ts, g, p) ==
    [pools |-> add_pool_pools(ps, p), tokens |-> add_pool_tokens(ts, p),
     graph |-> add_pool_graph(g, p)]

WellFormed(p) == ~Malformed(p) /\ p.price[1] > 0

\* every pool add_pool has been given is well-formed
AllWellFormed == \A id \in DOMAIN pools : WellFormed(pools[id])

\* C4: for every pool held in the pool table exactly two edges of the graph carry its
\* pool_id, one in each direction between its two tokens (stated here for pool
\* tables that hold only well-formed pools)
C4_TwoEdgesPerPool ==
    AllWellFormed =>
        \A id \in DOMAIN pools :
            LET ka == TokenKey(pools[id].token_a)
                kb == TokenKey(pools[id].token_b)
            IN  {e \in DOMAIN graph : graph[e].pool_id = id} = {<<ka, kb>>, <<kb, ka>>}

\* C5: from any reachable state, add_pool called twice in a row with the same pool
\* leaves the pool table, the token registry and the graph as the first call left them
C5_Idempotent ==
    \A p \in PoolInputs :
        LET once == StateAfter(pools, tokens, graph, p)
        IN  StateAfter(once.pools, once.tokens, once.graph, p) = once

\* add_pool has just run a second time in a row with the same pool, on a graph whose
\* edges carry the attributes a search wrote
C5_Witness ==
    /\ addRepeat
    /\ \E e \in DOMAIN graph : graph[e].price_impact # Absent

\* C7: add_pool called with a malformed pool fails with InvalidPool and leaves the
\* pool table, the token registry and the graph unchanged
C7_MalformedRejected ==
    [][(nAdds' = nAdds + 1 /\ Malformed(addArg'[1])) =>
          (addOutcome' = "InvalidPool" /\ pools' = pools /\ tokens' = tokens /\ graph' = graph)]_vars

-----------------------------------------------------------------------------
(* Properties of the routes find_routes returns *)

Returned == call.outcome = "routes"

\* the edge of the graph a step goes over
StepEdge(step) == <<TokenKey(step.token_in), TokenKey(step.token_out)>>

\* the outputs of the hops of a simulated route: the input of the next hop, and the
\* amount the walk ended with
HopOutputs(route) ==
    [j \in 1..Len(route.steps) |->
        IF j < Len(route.steps) THEN route.steps[j + 1].amount_in
        ELSE route.expected_amount_out]

\* C1: every returned route has a non-empty steps list that starts at the requested
\* token_in, ends at the requested token_out, and chains token_out to token_in
C1_RouteIntegrity ==
    Returned =>
        \A i \in 1..Len(call.result) :
            LET steps == call.result[i].steps
            IN  /\ Len(steps) >= 1
                /\ steps[1].token_in = call.token_in
                /\ steps[Len(steps)].token_out = call.token_out
                /\ \A j \in 1..(Len(steps) - 1) : steps[j].token_out = steps[j + 1].token_in

\* a call returned a route of two hops next to a direct one
C1_Witness ==
    /\ AllWellFormed
    /\ Returned
    /\ \E i, j \in 1..Len(call.result) :
         Len(call.result[i].steps) = 1 /\ Len(call.result[j].steps) >= 2

\* the hop output with the pool fee taken off the input first:
\* floor(reserve_out - reserve_in * reserve_out / (reserve_in + current * (1 - fee_tier)))
FeeAdjustedOutput(data, current) ==
    LET effective_in == RMul(RInt(current), <<1000 - data.fee_tier, 1000>>)
        new_reserve_in == RAdd(RInt(data.reserve_a), effective_in)
        new_reserve_out == RDiv(RInt(data.reserve_a * data.reserve_b), new_reserve_in)
    IN  RTrunc(RSub(RInt(data.reserve_b), new_reserve_out))

\* C2 (over graphs built from well-formed pools): the first hop takes the requested amount, each later hop takes the output of
\* the hop before it, and a hop over an edge with positive reserves yields the
\* constant-product output for its input less the pool fee
C2_FeeDeducted ==
    (AllWellFormed /\ Returned) =>
        \A i \in 1..Len(call.simulated) :
            LET route == call.simulated[i]
            IN  /\ route.steps[1].amount_in = call.amount
                /\ \A j \in 1..Len(route.steps) :
                     LET data == graph[call.paths[i][j]]
                     IN  (data.reserve_a > 0 /\ data.reserve_b > 0) =>
                             HopOutputs(route)[j] =
                                 FeeAdjustedOutput(data, route.steps[j].amount_in)

SearchRank(route) == CHOOSE k \in 1..Len(call.simulated) : call.simulated[k].steps = route.steps

UnknownRequest ==
    \/ TokenKey(call.token_in) \notin DOMAIN tokens
    \/ TokenKey(call.token_out) \notin DOMAIN tokens

\* C6: find_routes with a token_in or token_out that is not in the token registry
\* fails with the unknown-token error (the library's NodeNotFound is taken for it)
C6_UnknownTokenFails ==
    (call.outcome # "none" /\ UnknownRequest) =>
        call.outcome \in {"UnknownToken", "NodeNotFound"}

\* C8 (over graphs built from well-formed pools): a path with a hop of output 0 has no route in the returned list
C8_DeadRouteDropped ==
    (AllWellFormed /\ Returned) =>
        \A i \in 1..Len(call.simulated) :
            (\E j \in 1..Len(call.simulated[i].steps) : HopOutputs(call.simulated[i])[j] = 0) =>
                \A k \in 1..Len(call.result) : call.result[k].steps # call.simulated[i].steps

\* C9 (over graphs built from well-formed pools): no returned route traverses an edge whose reserve_in or reserve_out is <= 0
C9_NoDrainedEdge ==
    (AllWellFormed /\ Returned) =>
        \A i \in 1..Len(call.result) :
            \A j \in 1..Len(call.result[i].steps) :
                LET data == graph[StepEdge(call.result[i].steps[j])]
                IN  data.reserve_a > 0 /\ data.reserve_b > 0

-----------------------------------------------------------------------------
(* find_routes on several threads sharing one router: nothing in the code locks the
   graph, so another thread may run between a call's search and its simulation *)

\* thread t enters find_routes and runs _k_shortest_paths; with no path to simulate
\* (or the exception) the call is over at once
Search(t, token_in, token_out, amount) ==
    /\ call = NoCall
    /\ threads[t].pc = "idle"
    /\ nCalls < MaxThreadCalls
    /\ nCalls' = nCalls + 1
    /\ \E sr \in SearchStep(graph, token_in, token_out, amount) :
         /\ graph' = sr.graph
         /\ IF sr.paths = <<>>
            THEN /\ threads' = Observe(threads, sr.graph)
                 /\ call' = [outcome |-> sr.outcome, token_in |-> token_in,
                             token_out |-> token_out, amount |-> amount, paths |-> <<>>,
                             seen |-> {sr.graph}, simulated |-> <<>>, result |-> <<>>]
            ELSE /\ threads' =
                      [Observe(threads, sr.graph) EXCEPT ![t] =
                          [pc |-> "searched", token_in |-> token_in,
                           token_out |-> token_out, amount |-> amount,
                           paths |-> sr.paths, seen |-> {sr.graph}]]
                 /\ UNCHANGED call
    /\ addRepeat' = FALSE
    /\ UNCHANGED <<pools, tokens, nAdds, addOutcome, addArg>>

\* thread t runs the simulation of its paths, the adjustment, and returns
Simulate(t) ==
    /\ call = NoCall
    /\ threads[t].pc = "searched"
    /\ \E sim \in SimulateStep(graph, tokens, threads[t].paths, threads[t].amount) :
         call' = [outcome |-> "routes", token_in |-> threads[t].token_in,
                  token_out |-> threads[t].token_out, amount |-> threads[t].amount,
                  paths |-> threads[t].paths, seen |-> threads[t].seen,
                  simulated |-> sim.simulated, result |-> sim.result]
    /\ threads' = [threads EXCEPT ![t] = IdleThread]
    /\ addRepeat' = FALSE
    /\ UNCHANGED <<pools, tokens, graph, nAdds, addOutcome, addArg, nCalls>>

NextThreads ==
    \/ \E p \in MarketPools : AddPool(p)
    \/ \E t \in Threads : \E token_in, token_out \in Tokens : \E amount \in Amounts :
         Search(t, token_in, token_out, amount)
    \/ \E t \in Threads : Simulate(t)
    \/ Consume

SpecThreads == Init /\ [][NextThreads]_vars

\* the lists the call returns when nothing runs between its steps, on graph g
AloneOn(g) ==
    { o.result : o \in find_routes(g, tokens, call.token_in, call.token_out, call.amount) }

\* C10: a find_routes call that ran next to add_pool and other find_routes calls
\* returns what it would return run alone on the graph as it stood at one instant
\* of the call
C10_ConsistentSnapshot ==
    (Returned /\ call.paths # <<>>) =>
        \E g \in call.seen : call.result \in AloneOn(g)

====
